---- MODULE Spec2Model ----
(***************************************************************************)
(* A model of data/VideoFolder.py: the VideoFolder data set (flat frame    *)
(* index, cache of sequential decoders), the BatchSampler and the          *)
(* VideoCollate collation function.                                        *)
(*                                                                         *)
(* Python indices are kept 0-based, as in the source; a Python list l is a *)
(* TLA+ sequence and l[i] is written At(l, i).                             *)
(***************************************************************************)
EXTENDS Integers, Sequences, FiniteSets, TLC

(***************************************************************************)
(* Bounds of the model.                                                    *)
(***************************************************************************)
\* largest number of frames of a whole data set (sum over its videos)
MaxTotal == 3
\* largest number of decoders (FFmpegReader objects) opened in one run of
\* arbitrary calls
MaxOpens == 2
\* largest batch_size (number of concurrent streams) of a loader
MaxBatch == 4
\* largest number of rows of one batch of a loader (big_t)
MaxT == 2
\* number of times a loader or a caller iterates over a sampler
MaxEpochs == 2
\* largest data set (in frames) and largest batch_size of a sampler that is
\* iterated without fetching
MaxLen == 12
MaxStreams == 5
MaxFrames == 6      \* frames of the data sets read for one epoch
MaxCalls == 4       \* calls of __getitem__ by the concurrent callers in all
MaxShared == 2      \* frames of the data sets read by concurrent callers
MaxFiles == 2       \* video files per class directory in the walk
MaxCount == 5       \* the @nb_frames a probe reports in the walk

(***************************************************************************)
(* Helpers for Python values.                                              *)
(***************************************************************************)
At(l, i) == l[i + 1]

Range(n) == 0 .. (n - 1)

\* a % b of Python for b > 0: the result has the sign of b, so it is in 0..b-1
\* (the remainder of C, which has the sign of a, is not what Python computes)
PyModTruncated(a, b) == IF a < 0 THEN 0 - ((0 - a) % b) ELSE a % b

PyMod(a, b) == a - b * (a \div b)

\* s < t for two Python tuples of integers: the first differing element
\* decides, and a proper prefix is smaller
RECURSIVE TupleLess(_, _)
TupleLess(s, t) ==
    IF t = <<>> THEN FALSE
    ELSE IF s = <<>> THEN TRUE
    ELSE IF Head(s) # Head(t) THEN Head(s) < Head(t)
    ELSE TupleLess(Tail(s), Tail(t))

\* x < a for the probe x = ((frame_idx,),) and an item a = ((last, first),
\* (path, target)) of self.videos: the first elements (frame_idx,) and
\* (last, first) have different lengths, so they differ and they decide
\* (a slip: the probe is compared with the last index alone, strictly)
ItemLessStrict(x, a) == x[1][1] < a[1][1]

ItemLess(x, a) ==
    IF x[1] # a[1] THEN TupleLess(x[1], a[1])
    ELSE Len(x) < Len(a)

(***************************************************************************)
(* bisect.bisect (bisect_right): the insertion point of x in the sorted    *)
(* list a, after any entries equal to x.                                   *)
(***************************************************************************)
RECURSIVE bisect_loop(_, _, _, _)
bisect_loop(a, x, lo, hi) ==
    IF lo < hi
    THEN LET mid == (lo + hi) \div 2
         IN IF ItemLess(x, At(a, mid))
            THEN bisect_loop(a, x, lo, mid)
            ELSE bisect_loop(a, x, mid + 1, hi)
    ELSE lo

bisect(a, x) == bisect_loop(a, x, 0, Len(a))

(***************************************************************************)
(* The directory tree: one entry per class directory, in sorted order      *)
(* (_find_classes), each the list of @nb_frames of its video files in      *)
(* listdir order.  A file is named by its position in its class.  The      *)
(* trees of the model have two class directories, which share the videos.  *)
(***************************************************************************)
\* the frame counts of a tree, in the order of the walk
RECURSIVE Counts(_)
Counts(tree) == IF tree = <<>> THEN <<>> ELSE Head(tree) \o Counts(Tail(tree))

RECURSIVE Sum(_)
Sum(q) == IF q = <<>> THEN 0 ELSE Head(q) + Sum(Tail(q))

\* the lists of positive frame counts whose sum is n
RECURSIVE Compositions(_)
Compositions(n) ==
    IF n = 0 THEN {<<>>}
    ELSE UNION {{<<k>> \o c : c \in Compositions(n - k)} : k \in 1 .. n}

Trees ==
    UNION {{<<SubSeq(c, 1, k), SubSeq(c, k + 1, Len(c))>> : k \in 0 .. Len(c)}
           : c \in UNION {Compositions(n) : n \in 0 .. MaxTotal}}

(***************************************************************************)
(* VideoFolder._make_data_set: the items ((last, first), (path, target))   *)
(* in the order of the walk, and the number of frames.                     *)
(***************************************************************************)
\* make_files with the last flat index of an item one too far
RECURSIVE make_filesOneTooFar(_, _, _, _)
make_filesOneTooFar(class_idx, files, k, acc) ==
    IF k > Len(files) THEN acc
    ELSE LET start_idx == acc.frames
             frames == acc.frames + files[k]
             item == <<<<frames, start_idx>>,
                       <<<<class_idx, k - 1>>, class_idx>>>>
         IN make_filesOneTooFar(class_idx, files, k + 1,
                                [videos |-> Append(acc.videos, item),
                                 frames |-> frames])

RECURSIVE make_files(_, _, _, _)
make_files(class_idx, files, k, acc) ==
    IF k > Len(files) THEN acc
    ELSE LET start_idx == acc.frames
             frames == acc.frames + files[k]
             item == <<<<frames - 1, start_idx>>,
                       <<<<class_idx, k - 1>>, class_idx>>>>
         IN make_files(class_idx, files, k + 1,
                       [videos |-> Append(acc.videos, item), frames |-> frames])

RECURSIVE make_classes(_, _, _)
make_classes(tree, c, acc) ==
    IF c > Len(tree) THEN acc
    ELSE make_classes(tree, c + 1, make_files(c - 1, tree[c], 1, acc))

_make_data_set(tree) == make_classes(tree, 1, [videos |-> <<>>, frames |-> 0])

(***************************************************************************)
(* The state of a VideoFolder and of the decoders it has opened.           *)
(*                                                                         *)
(* An item of opened_videos[video_idx] is the Python list                  *)
(* [seek, islice(video_iter, seek, None), video_file]: seek is the offset  *)
(* the item is expected to serve next, skip and consumed are the state of  *)
(* the islice (frames still to discard, frames taken from the decoder so   *)
(* far) and h is the FFmpegReader, named by its rank among all readers     *)
(* opened.                                                                 *)
(***************************************************************************)
VARIABLES
    videos,         \* self.videos
    frames,         \* self.frames
    opened_videos,  \* self.opened_videos
    delivers,       \* per video: the number of frames its decoder yields
    readers,        \* per FFmpegReader opened: its video and its _close() calls
    asked,          \* per FFmpegReader opened: the offsets requested of its item
    ret             \* the outcome of the latest call

dataset_vars == <<videos, frames, opened_videos, delivers, readers, asked, ret>>

(***************************************************************************)
(* The state of a DataLoader built as in _test_data_loader: a BatchSampler *)
(* on the data set, batches of batch_size * big_t samples, VideoCollate.   *)
(***************************************************************************)
VARIABLES
    batch_size,       \* BatchSampler.batch_size and VideoCollate.batch_size
    big_t,            \* the loader takes batch_size * big_t samples per batch
    samples_per_row,  \* BatchSampler.samples_per_row
    num_samples,      \* BatchSampler.num_samples
    sampler_it,       \* the generator of __iter__: its loop variables j and i
    yielded,          \* the indices the generator has yielded so far
    epoch,            \* the iterations over the sampler, the current one included
    earlier,          \* the indices yielded by the iteration before
    batch,            \* the samples fetched for the batch in the making
    collated          \* the latest batch: its samples, its first row, the output

loader_vars ==
    <<batch_size, big_t, samples_per_row, num_samples, sampler_it, yielded,
      epoch, earlier, batch, collated>>

(***************************************************************************)
(* The walk of _make_data_set over the root directory, file by file.       *)
(***************************************************************************)
VARIABLES
    root,   \* per class directory walked: the @nb_frames of its video files
    walk    \* the class being walked, and whether __init__ is over

builder_vars == <<root, walk>>

(***************************************************************************)
(* Callers of __getitem__ that share one VideoFolder without a lock.       *)
(***************************************************************************)
VARIABLES
    calls,  \* per caller: where its call of __getitem__ stands, its locals
    raced   \* what calls under way at the same time have done to each other

caller_vars == <<calls, raced>>

vars == <<dataset_vars, loader_vars, builder_vars, caller_vars>>

NoFrame == [path |-> <<>>, n |-> 0 - 1]

NoCall ==
    [op |-> "none", frame_idx |-> 0, err |-> "none", frame |-> NoFrame,
     target |-> 0 - 1, video_idx |-> 0 - 1, seek |-> 0 - 1, last |-> FALSE,
     wrapped |-> 0 - 1, h |-> 0 - 1, hit |-> FALSE]

\* the number of frames the index records for a video
nb_frames(video_idx) ==
    At(videos, video_idx)[1][1] - At(videos, video_idx)[1][2] + 1

\* VideoFolder.__init__ on a directory tree
VideoFolderInit(tree) ==
    LET made == _make_data_set(tree)
    IN /\ videos = made.videos
       /\ frames = made.frames
       /\ opened_videos = [v \in 1 .. Len(made.videos) |-> <<>>]
       /\ readers = <<>>
       /\ asked = <<>>
       /\ ret = NoCall
       /\ root = tree
       /\ walk = [class_ |-> Len(tree), done |-> TRUE]

(***************************************************************************)
(* VideoFolder._get_frame, piece by piece.                                 *)
(***************************************************************************)
\* line 114: the position of the first item of the list whose seek matches,
\* 0 when there is none
\* (two slips: no item is ever matched; any open item is taken)
lookupNever(current, seek) == 0

lookupAny(current, seek) == IF current = <<>> THEN 0 ELSE 1

lookup(current, seek) ==
    LET found == {i \in 1 .. Len(current) : current[i].seek = seek}
    IN IF found = {} THEN 0
       ELSE CHOOSE i \in found : \A j \in found : i <= j

\* line 120: a new item on a new reader h; islice discards nothing yet
new_item(seek, h) == [seek |-> seek, skip |-> seek, consumed |-> 0, h |-> h]

\* next(islice): the offset of the frame it yields, given that the decoder
\* yields n frames; -1 when the decoder runs out first (StopIteration)
islice_next(item, n) ==
    IF item.consumed + item.skip < n THEN item.consumed + item.skip ELSE 0 - 1

\* the item after lines 123 and 124: the seek pointer is set before the
\* frame is pulled
pulled(item, seek, n) ==
    LET got == islice_next(item, n)
    IN [seek |-> seek + 1,
        skip |-> 0,
        consumed |-> IF got < 0 THEN n ELSE got + 1,
        h |-> item.h]

\* a remove that leaves the list as it is
removeNothing(l, x) == l

\* a remove that takes the first element, whichever x is
removeFirst(l, x) == Tail(l)

\* list.remove(x): without the first element equal to x.  Two items are
\* equal only when they are the same item (their islice objects compare by
\* identity), which the reader h stands for.
remove(l, x) ==
    LET found == {i \in 1 .. Len(l) : l[i] = x}
        k == CHOOSE i \in found : \A j \in found : i <= j
    IN IF found = {} THEN l
       ELSE SubSeq(l, 1, k - 1) \o SubSeq(l, k + 1, Len(l))

\* line 125: the item is closed and removed when the frame is the last
\* (a slip: the item is never removed)
evictsNever(last, seek) == FALSE

evicts(last, seek) == last

\* the readers after one _close() of reader h
closed(rs, h) == [rs EXCEPT ![h + 1].closes = @ + 1]

(***************************************************************************)
(* VideoFolder.__getitem__, with the call of _get_frame it makes.  A call  *)
(* that raises leaves the state as the statements before the raise made    *)
(* it.                                                                     *)
(***************************************************************************)
Raised(frame_idx, err) ==
    [NoCall EXCEPT !.op = "get", !.frame_idx = frame_idx, !.err = err]

GetItem(frame_idx) ==
    IF frames = 0
    THEN \* line 95: frame_idx %= 0
         /\ ret' = Raised(frame_idx, "ZeroDivisionError")
         /\ UNCHANGED <<videos, frames, opened_videos, delivers, readers, asked>>
    ELSE
    LET wrapped == PyMod(frame_idx, frames)
        video_idx == bisect(videos, <<<<wrapped>>>>)
    IN
    IF video_idx >= Len(videos)
    THEN \* line 97: self.videos[video_idx]
         /\ ret' = Raised(frame_idx, "IndexError")
         /\ UNCHANGED <<videos, frames, opened_videos, delivers, readers, asked>>
    ELSE
    LET item == At(videos, video_idx)
        last == item[1][1]
        first == item[1][2]
        path == item[2][1]
        target == item[2][2]
        seek == wrapped - first
        current == At(opened_videos, video_idx)
        pos == lookup(current, seek)
        hit == pos # 0
        h == IF hit THEN current[pos].h ELSE Len(readers)
    IN
    IF ~hit /\ seek < 0
       THEN \* line 120: islice refuses a negative start; the reader is open
            /\ readers' = Append(readers, [video_idx |-> video_idx, closes |-> 0])
            /\ asked' = Append(asked, <<>>)
            /\ ret' = [Raised(frame_idx, "ValueError") EXCEPT
                           !.h = h, !.wrapped = wrapped, !.video_idx = video_idx,
                           !.seek = seek]
            /\ UNCHANGED <<videos, frames, opened_videos, delivers>>
       ELSE
       LET opened_video == IF hit THEN current[pos] ELSE new_item(seek, h)
           listed == IF hit THEN current ELSE Append(current, opened_video)
           at == IF hit THEN pos ELSE Len(listed)
           n == At(delivers, video_idx)
           got == islice_next(opened_video, n)
           after == pulled(opened_video, seek, n)
           kept == [listed EXCEPT ![at] = after]
           evict == got >= 0 /\ evicts(wrapped = last, seek)
           opened == IF hit THEN readers
                     ELSE Append(readers, [video_idx |-> video_idx, closes |-> 0])
       IN
       /\ opened_videos' =
              [opened_videos EXCEPT ![video_idx + 1] =
                  IF evict THEN remove(kept, after) ELSE kept]
       /\ readers' = IF evict THEN closed(opened, h) ELSE opened
       /\ asked' = IF hit THEN [asked EXCEPT ![h + 1] = Append(@, seek)]
                   ELSE Append(asked, <<seek>>)
       /\ ret' = [op |-> "get", frame_idx |-> frame_idx,
                  err |-> IF got < 0 THEN "StopIteration" ELSE "none",
                  frame |-> IF got < 0 THEN NoFrame ELSE [path |-> path, n |-> got],
                  target |-> IF got < 0 THEN 0 - 1 ELSE target,
                  video_idx |-> video_idx, seek |-> seek, last |-> (wrapped = last),
                  wrapped |-> wrapped, h |-> h, hit |-> hit]
       /\ UNCHANGED <<videos, frames, delivers>>

\* the indices a caller passes: one period below 0, the indices of the data
\* set, and one period and one index above it
Indices == (0 - frames) .. (2 * frames)

\* the call opens a reader
Misses(frame_idx) ==
    /\ frames > 0
    /\ LET wrapped == PyMod(frame_idx, frames)
           video_idx == bisect(videos, <<<<wrapped>>>>)
       IN video_idx < Len(videos) =>
              lookup(At(opened_videos, video_idx),
                     wrapped - At(videos, video_idx)[1][2]) = 0

\* a call by any caller; one that would open a reader beyond MaxOpens is
\* left out
Get ==
    /\ \E frame_idx \in Indices :
          /\ Misses(frame_idx) => Len(readers) < MaxOpens
          /\ GetItem(frame_idx)
    /\ UNCHANGED <<loader_vars, builder_vars, caller_vars>>

(***************************************************************************)
(* VideoFolder.free: every item of every list is popped and closed.        *)
(***************************************************************************)
\* (a slip: one pop per list instead of one per item)
close_allOnce(rs, items) ==
    IF items = <<>> THEN rs ELSE closed(rs, items[Len(items)].h)

RECURSIVE close_all(_, _)
close_all(rs, items) ==
    IF items = <<>> THEN rs
    ELSE close_all(closed(rs, items[Len(items)].h), SubSeq(items, 1, Len(items) - 1))

RECURSIVE free_from(_, _)
free_from(rs, v) ==
    IF v > Len(opened_videos) THEN rs
    ELSE free_from(close_all(rs, opened_videos[v]), v + 1)

Free ==
    /\ opened_videos' = [v \in 1 .. Len(opened_videos) |-> <<>>]
    /\ readers' = free_from(readers, 1)
    /\ ret' = [NoCall EXCEPT !.op = "free"]
    /\ UNCHANGED <<videos, frames, delivers, asked>>
    /\ UNCHANGED <<loader_vars, builder_vars, caller_vars>>

(***************************************************************************)
(* The data set under any sequence of calls.  In Spec every decoder yields *)
(* the frames the index counted for its video; in ShortSpec a decoder may  *)
(* yield one frame fewer (a corrupt file, or metadata that overstate it).  *)
(***************************************************************************)
Probed == [v \in 1 .. Len(videos) |-> nb_frames(v - 1)]

\* no caller is inside a call
NoCallers ==
    /\ calls = <<>>
    /\ raced = {}

\* no loader is at work
NoLoader ==
    /\ batch_size = 1 /\ big_t = 1 /\ samples_per_row = 0 /\ num_samples = 0
    /\ sampler_it = [j |-> 0, i |-> 0] /\ yielded = <<>>
    /\ epoch = 0 /\ earlier = <<>> /\ batch = <<>>
    /\ collated = [samples |-> <<>>, row |-> 0, out |-> <<>>]

Init ==
    /\ \E tree \in Trees : VideoFolderInit(tree)
    /\ delivers = Probed
    /\ NoLoader
    /\ NoCallers

Next == Get \/ Free

Spec == Init /\ [][Next]_vars

ShortInit ==
    /\ \E tree \in Trees : VideoFolderInit(tree)
    /\ delivers \in [1 .. Len(videos) -> 0 .. MaxTotal]
    /\ \A v \in 1 .. Len(videos) : delivers[v] \in {Probed[v] - 1, Probed[v]}
    /\ NoLoader
    /\ NoCallers

ShortSpec == ShortInit /\ [][Next]_vars

(***************************************************************************)
(* BatchSampler.                                                           *)
(***************************************************************************)
\* math.ceil(a / b) for a >= 0 and b > 0 (the quotient is a float in the
\* source, exact for the lengths of the model)
\* a division that rounds down
floor_div(a, b) == a \div b

ceil_div(a, b) == 0 - ((0 - a) \div b)

\* __init__, lines 32 to 34
BatchSamplerInit(data_source_len, size) ==
    /\ batch_size = size
    /\ samples_per_row = ceil_div(data_source_len, size)
    /\ num_samples = ceil_div(data_source_len, size) * size

\* line 37: the element of the generator for the loop variables j and i
\* (a slip: the indices of a row are taken next to each other)
generatedRowMajor(j, i) == batch_size * j + i

generated(j, i) == samples_per_row * i + j

\* line 37: the loop variables after one element, i in range(batch_size)
\* inside j in range(samples_per_row)
advanced(it) ==
    IF it.i + 1 < batch_size THEN [j |-> it.j, i |-> it.i + 1]
    ELSE [j |-> it.j + 1, i |-> 0]

\* the generator has elements left
has_next(it) == it.j < samples_per_row /\ it.i < batch_size

(***************************************************************************)
(* VideoCollate.__call__.  A Python value is a record with its kind: a     *)
(* tensor (v: its content), an int (v: its value), a tuple (v: the         *)
(* sequence of its elements).  A collated tensor has as content the rows   *)
(* of its two leading dimensions, a sequence of sequences.                 *)
(***************************************************************************)
TensorValue(v) == [kind |-> "tensor", v |-> v]
IntValue(v) == [kind |-> "int", v |-> v]
TupleValue(v) == [kind |-> "tuple", v |-> v]
CollateError(e) == [kind |-> "error", v |-> e]

\* tensor.view(-1, size, ...) of the elements stacked along a new first
\* dimension: element (t, s) is element t * size + s of the stack, and the
\* view is refused when the stack does not divide into rows of size
\* (a slip: the stack is read down the columns)
viewColumnMajor(flat, size) ==
    IF Len(flat) % size # 0 THEN CollateError("RuntimeError")
    ELSE TensorValue([t \in 1 .. (Len(flat) \div size) |->
                    [s \in 1 .. size |->
                        flat[(s - 1) * (Len(flat) \div size) + t]]])

view(flat, size) ==
    IF Len(flat) % size # 0 THEN CollateError("RuntimeError")
    ELSE TensorValue([t \in 1 .. (Len(flat) \div size) |->
                    [s \in 1 .. size |-> flat[(t - 1) * size + s]]])

\* zip(*samples): one tuple per position, as long as the shortest sample
MinLen(samples) ==
    CHOOSE n \in {Len(samples[k].v) : k \in 1 .. Len(samples)} :
        \A k \in 1 .. Len(samples) : n <= Len(samples[k].v)

transposed(samples) ==
    [c \in 1 .. MinLen(samples) |->
        [k \in 1 .. Len(samples) |-> samples[k].v[c]]]

RECURSIVE VideoCollate(_, _)
VideoCollate(samples, size) ==
    IF samples = <<>> THEN CollateError("IndexError")
    ELSE IF samples[1].kind = "tensor"
    THEN view([k \in 1 .. Len(samples) |-> samples[k].v], size)
    ELSE IF samples[1].kind = "int"
    THEN view([k \in 1 .. Len(samples) |-> samples[k].v], size)
    ELSE IF samples[1].kind = "tuple"
    THEN TupleValue([c \in 1 .. MinLen(samples) |->
                   VideoCollate(transposed(samples)[c], size)])
    ELSE CollateError("TypeError")

(***************************************************************************)
(* The loader of _test_data_loader: sampler = BatchSampler(data_set,       *)
(* batch_size), batches of batch_size * big_t indices of the sampler in    *)
(* order (the last one of an iteration may be shorter), each sample        *)
(* fetched with data_set[index] (the transform makes the frame a tensor)   *)
(* and each batch collated by VideoCollate(batch_size).                    *)
(***************************************************************************)
\* the sample data_set[index] of a call that returned
Sample(r) == TupleValue(<<TensorValue(r.frame), IntValue(r.target)>>)

\* one index of the sampler is taken and its sample fetched
Fetch ==
    /\ 1 <= epoch /\ has_next(sampler_it)
    /\ Len(batch) < batch_size * big_t
    /\ GetItem(generated(sampler_it.j, sampler_it.i))
    /\ yielded' = Append(yielded, generated(sampler_it.j, sampler_it.i))
    /\ sampler_it' = advanced(sampler_it)
    /\ batch' = Append(batch, IF ret'.err = "none" THEN Sample(ret')
                              ELSE CollateError(ret'.err))
    /\ UNCHANGED <<batch_size, big_t, samples_per_row, num_samples, epoch,
                   earlier, collated>>
    /\ UNCHANGED <<builder_vars, caller_vars>>

\* the batch is full, or the sampler has no index left: the batch is collated
Collate ==
    /\ batch # <<>>
    /\ Len(batch) = batch_size * big_t \/ ~has_next(sampler_it)
    /\ collated' = [samples |-> batch,
                    row |-> (Len(yielded) - Len(batch)) \div batch_size,
                    out |-> VideoCollate(batch, batch_size)]
    /\ batch' = <<>>
    /\ UNCHANGED dataset_vars
    /\ UNCHANGED <<batch_size, big_t, samples_per_row, num_samples, sampler_it,
                   yielded, epoch, earlier>>
    /\ UNCHANGED <<builder_vars, caller_vars>>

\* iter(loader): a new generator of the sampler, once the one before is
\* used up
Iterate ==
    /\ epoch < MaxEpochs
    /\ batch = <<>>
    /\ epoch >= 1 => ~has_next(sampler_it)
    /\ epoch' = epoch + 1
    /\ sampler_it' = [j |-> 0, i |-> 0]
    /\ yielded' = <<>>
    /\ earlier' = yielded
    /\ UNCHANGED dataset_vars
    /\ UNCHANGED <<batch_size, big_t, samples_per_row, num_samples, batch,
                   collated>>
    /\ UNCHANGED <<builder_vars, caller_vars>>

LoaderInit ==
    /\ \E tree \in Trees : VideoFolderInit(tree)
    /\ delivers = Probed
    /\ \E size \in 1 .. MaxBatch : BatchSamplerInit(frames, size)
    /\ big_t \in 1 .. MaxT
    /\ sampler_it = [j |-> 0, i |-> 0] /\ yielded = <<>>
    /\ epoch = 0 /\ earlier = <<>> /\ batch = <<>>
    /\ collated = [samples |-> <<>>, row |-> 0, out |-> <<>>]
    /\ NoCallers

LoaderNext == Fetch \/ Collate \/ Iterate

LoaderSpec == LoaderInit /\ [][LoaderNext]_vars

\* the same loader on the longer data sets of one class directory
EpochInit ==
    /\ \E n \in 0 .. MaxFrames :
          \E files \in Compositions(n) : VideoFolderInit(<<files, <<>>>>)
    /\ delivers = Probed
    /\ \E size \in 1 .. MaxBatch : BatchSamplerInit(frames, size)
    /\ big_t \in 1 .. MaxT
    /\ sampler_it = [j |-> 0, i |-> 0] /\ yielded = <<>>
    /\ epoch = 0 /\ earlier = <<>> /\ batch = <<>>
    /\ collated = [samples |-> <<>>, row |-> 0, out |-> <<>>]
    /\ NoCallers

EpochSpec == EpochInit /\ [][LoaderNext]_vars

(***************************************************************************)
(* A BatchSampler iterated by a caller that fetches nothing: iter(sampler) *)
(* and next() on its generator, on a data set of one video.                *)
(***************************************************************************)
\* next() on the generator of __iter__
Draw ==
    /\ 1 <= epoch /\ has_next(sampler_it)
    /\ yielded' = Append(yielded, generated(sampler_it.j, sampler_it.i))
    /\ sampler_it' = advanced(sampler_it)
    /\ UNCHANGED dataset_vars
    /\ UNCHANGED <<batch_size, big_t, samples_per_row, num_samples, epoch,
                   earlier, batch, collated>>
    /\ UNCHANGED <<builder_vars, caller_vars>>

SamplerInit ==
    /\ \E n \in 0 .. MaxLen :
          VideoFolderInit(IF n = 0 THEN <<<<>>, <<>>>> ELSE <<<<n>>, <<>>>>)
    /\ delivers = Probed
    /\ \E size \in 1 .. MaxStreams : BatchSamplerInit(frames, size)
    /\ big_t = 1
    /\ sampler_it = [j |-> 0, i |-> 0] /\ yielded = <<>>
    /\ epoch = 0 /\ earlier = <<>> /\ batch = <<>>
    /\ collated = [samples |-> <<>>, row |-> 0, out |-> <<>>]
    /\ NoCallers

SamplerNext == Draw \/ Iterate

SamplerSpec == SamplerInit /\ [][SamplerNext]_vars

(***************************************************************************)
(* The construction of a VideoFolder, one step of _make_data_set at a      *)
(* time.  The directories and files listdir turns up and the @nb_frames    *)
(* ffprobe reports are the inputs; root records them as they come.  Files  *)
(* that are no video files are skipped by the walk and are left out.       *)
(***************************************************************************)
\* the class directories _find_classes finds, sorted
ClassDirs == <<"cat", "dog">>

\* for class_ in classes: the next class directory
NextClass ==
    /\ ~walk.done
    /\ walk.class_ < Len(ClassDirs)
    /\ walk' = [walk EXCEPT !.class_ = @ + 1]
    /\ root' = Append(root, <<>>)
    /\ UNCHANGED <<videos, frames, opened_videos, delivers, readers, asked, ret>>
    /\ UNCHANGED <<loader_vars, caller_vars>>

\* for filename in listdir(class_path): the next video file, probed
ProbeVideo ==
    /\ ~walk.done
    /\ walk.class_ >= 1
    /\ Len(root[walk.class_]) < MaxFiles
    /\ \E nb \in 0 .. MaxCount :
          LET files == Append(root[walk.class_], nb)
              acc == make_files(walk.class_ - 1, files, Len(files),
                                [videos |-> videos, frames |-> frames])
          IN /\ root' = [root EXCEPT ![walk.class_] = files]
             /\ videos' = acc.videos
             /\ frames' = acc.frames
    /\ UNCHANGED <<walk, opened_videos, delivers, readers, asked, ret>>
    /\ UNCHANGED <<loader_vars, caller_vars>>

\* the walk is over: __init__ keeps its result and makes the lists of items
Construct ==
    /\ ~walk.done
    /\ walk.class_ = Len(ClassDirs)
    /\ walk' = [walk EXCEPT !.done = TRUE]
    /\ opened_videos' = [v \in 1 .. Len(videos) |-> <<>>]
    /\ delivers' = Probed
    /\ UNCHANGED <<root, videos, frames, readers, asked, ret>>
    /\ UNCHANGED <<loader_vars, caller_vars>>

BuilderInit ==
    /\ root = <<>>
    /\ walk = [class_ |-> 0, done |-> FALSE]
    /\ videos = <<>>
    /\ frames = 0
    /\ opened_videos = <<>>
    /\ delivers = <<>>
    /\ readers = <<>>
    /\ asked = <<>>
    /\ ret = NoCall
    /\ NoLoader
    /\ NoCallers

BuilderNext == NextClass \/ ProbeVideo \/ Construct

BuilderSpec == BuilderInit /\ [][BuilderNext]_vars

(***************************************************************************)
(* Two callers of __getitem__ on one VideoFolder, without a lock: a caller *)
(* can be preempted between any two statements of _get_frame that touch    *)
(* opened_videos or a reader.  A caller holds the item it has selected by  *)
(* its reader h, whether or not the item is still in the list.             *)
(***************************************************************************)
Callers == {1, 2}

\* where the item of reader h stands in the list of its video, or 0
ItemPos(video_idx, h) ==
    LET current == At(opened_videos, video_idx)
        found == {i \in 1 .. Len(current) : current[i].h = h}
    IN IF found = {} THEN 0 ELSE CHOOSE i \in found : \A j \in found : i <= j

\* the other caller is inside a call
Overlaps(t) == \E u \in Callers : u # t /\ calls[u].pc # "idle"

\* the calls made so far
Made == Sum([t \in 1 .. Cardinality(Callers) |-> calls[t].made])

\* the call of caller t returns or raises
Returns(t, c) ==
    /\ calls' = [calls EXCEPT ![t] = [pc |-> "idle", made |-> @.made, c |-> c]]
    /\ ret' = c

\* the call of caller t goes on at pc
GoesOn(t, pc, c) ==
    /\ calls' = [calls EXCEPT ![t] = [pc |-> pc, made |-> @.made, c |-> c]]
    /\ ret' = ret

\* the indices the callers pass: one for every frame, index frames for
\* frame 0
Shared == IF frames = 0 THEN {0} ELSE 1 .. frames

\* lines 95 to 98: the call starts and works out video_idx, seek and last
Enter(t) ==
    /\ calls[t].pc = "idle"
    /\ Made < MaxCalls
    /\ \E frame_idx \in Shared :
          IF frames = 0
          THEN /\ calls' = [calls EXCEPT ![t] =
                              [pc |-> "idle", made |-> @.made + 1,
                               c |-> Raised(frame_idx, "ZeroDivisionError")]]
               /\ ret' = Raised(frame_idx, "ZeroDivisionError")
          ELSE LET wrapped == PyMod(frame_idx, frames)
                   video_idx == bisect(videos, <<<<wrapped>>>>)
                   item == At(videos, video_idx)
               IN /\ calls' = [calls EXCEPT ![t] =
                                 [pc |-> "lookup", made |-> @.made + 1,
                                  c |-> [NoCall EXCEPT
                                            !.op = "get",
                                            !.frame_idx = frame_idx,
                                            !.wrapped = wrapped,
                                            !.video_idx = video_idx,
                                            !.seek = wrapped - item[1][2],
                                            !.last = (wrapped = item[1][1]),
                                            !.target = item[2][2]]]]
                  /\ ret' = ret
    /\ raced' = IF Overlaps(t) THEN raced \cup {"overlap"} ELSE raced
    /\ UNCHANGED <<videos, frames, opened_videos, delivers, readers, asked>>
    /\ UNCHANGED <<loader_vars, builder_vars>>

\* lines 111 to 114: look for an item with a matching seek pointer
LookUp(t) ==
    /\ calls[t].pc = "lookup"
    /\ LET c == calls[t].c
           current == At(opened_videos, c.video_idx)
           pos == lookup(current, c.seek)
       IN IF pos # 0
          THEN GoesOn(t, "seek", [c EXCEPT !.hit = TRUE, !.h = current[pos].h])
          ELSE GoesOn(t, "open", c)
    /\ UNCHANGED <<videos, frames, opened_videos, delivers, readers, asked, raced>>
    /\ UNCHANGED <<loader_vars, builder_vars>>

\* lines 116 to 121: open a reader and append a new item
OpenVideo(t) ==
    /\ calls[t].pc = "open"
    /\ Len(readers) < MaxOpens
    /\ LET c == calls[t].c
           h == Len(readers)
       IN /\ readers' = Append(readers, [video_idx |-> c.video_idx, closes |-> 0])
          /\ asked' = Append(asked, <<>>)
          /\ opened_videos' =
                 [opened_videos EXCEPT ![c.video_idx + 1] =
                     Append(@, new_item(c.seek, h))]
          /\ GoesOn(t, "seek", [c EXCEPT !.h = h])
          /\ raced' = IF \E u \in Callers :
                            /\ u # t
                            /\ calls[u].pc \in {"seek", "pull"}
                            /\ ~calls[u].c.hit
                            /\ calls[u].c.video_idx = c.video_idx
                            /\ calls[u].c.seek = c.seek
                      THEN raced \cup {"opened twice"}
                      ELSE raced
    /\ UNCHANGED <<videos, frames, delivers>>
    /\ UNCHANGED <<loader_vars, builder_vars>>

\* line 123: opened_video[0] = seek + 1, on the item the caller holds
UpdateSeek(t) ==
    /\ calls[t].pc = "seek"
    /\ LET c == calls[t].c
           pos == ItemPos(c.video_idx, c.h)
       IN /\ opened_videos' =
                 IF pos = 0 THEN opened_videos
                 ELSE [opened_videos EXCEPT ![c.video_idx + 1][pos].seek = c.seek + 1]
          /\ asked' = [asked EXCEPT ![c.h + 1] = Append(@, c.seek)]
          /\ GoesOn(t, "pull", c)
    /\ UNCHANGED <<videos, frames, delivers, readers, raced>>
    /\ UNCHANGED <<loader_vars, builder_vars>>

\* line 124: next(opened_video[1]).  What a reader yields after _close()
\* is not defined: the call raises, or gets any frame of the video or none
NextFrame(t) ==
    /\ calls[t].pc = "pull"
    /\ LET c == calls[t].c
           pos == ItemPos(c.video_idx, c.h)
           n == At(delivers, c.video_idx)
           path == At(videos, c.video_idx)[2][1]
       IN IF readers[c.h + 1].closes > 0
          THEN /\ \/ Returns(t, [c EXCEPT !.err = "ValueError", !.target = 0 - 1])
                  \/ \E got \in (0 - 1) .. (n - 1) :
                        IF c.last
                        THEN GoesOn(t, "close",
                                    [c EXCEPT !.frame = [path |-> path, n |-> got]])
                        ELSE Returns(t, [c EXCEPT !.frame = [path |-> path, n |-> got]])
               /\ opened_videos' = opened_videos
               /\ raced' = raced \cup {"pulled from closed"}
          ELSE LET item == At(opened_videos, c.video_idx)[pos]
                   got == islice_next(item, n)
               IN /\ opened_videos' =
                         [opened_videos EXCEPT ![c.video_idx + 1][pos] =
                             pulled(item, item.seek - 1, n)]
                  /\ IF got < 0
                     THEN Returns(t, [c EXCEPT !.err = "StopIteration",
                                               !.target = 0 - 1])
                     ELSE IF c.last
                     THEN GoesOn(t, "close",
                                 [c EXCEPT !.frame = [path |-> path, n |-> got]])
                     ELSE Returns(t, [c EXCEPT !.frame = [path |-> path, n |-> got]])
                  /\ raced' = raced
    /\ UNCHANGED <<videos, frames, delivers, readers, asked>>
    /\ UNCHANGED <<loader_vars, builder_vars>>

\* line 126: opened_video[2]._close()
CloseFile(t) ==
    /\ calls[t].pc = "close"
    /\ LET c == calls[t].c
       IN /\ readers' = closed(readers, c.h)
          /\ GoesOn(t, "remove", c)
          /\ raced' = IF \E u \in Callers :
                            /\ u # t
                            /\ calls[u].pc \in {"seek", "pull"}
                            /\ calls[u].c.h = c.h
                      THEN raced \cup {"closed a selected item"}
                      ELSE raced
    /\ UNCHANGED <<videos, frames, opened_videos, delivers, asked>>
    /\ UNCHANGED <<loader_vars, builder_vars>>

\* line 127: self.opened_videos[video_idx].remove(opened_video), which
\* raises ValueError when the item is not in the list
RemoveItem(t) ==
    /\ calls[t].pc = "remove"
    /\ LET c == calls[t].c
           pos == ItemPos(c.video_idx, c.h)
           current == At(opened_videos, c.video_idx)
       IN IF pos = 0
          THEN /\ opened_videos' = opened_videos
               /\ Returns(t, [c EXCEPT !.err = "ValueError", !.frame = NoFrame,
                                       !.target = 0 - 1])
          ELSE /\ opened_videos' =
                      [opened_videos EXCEPT ![c.video_idx + 1] =
                          remove(current, current[pos])]
               /\ Returns(t, c)
    /\ UNCHANGED <<videos, frames, delivers, readers, asked, raced>>
    /\ UNCHANGED <<loader_vars, builder_vars>>

ConcInit ==
    /\ \E n \in 0 .. MaxShared :
          \E files \in Compositions(n) : VideoFolderInit(<<files, <<>>>>)
    /\ delivers = Probed
    /\ NoLoader
    /\ calls = [t \in Callers |-> [pc |-> "idle", made |-> 0, c |-> NoCall]]
    /\ raced = {}

ConcNext ==
    \E t \in Callers :
        \/ Enter(t)
        \/ LookUp(t)
        \/ OpenVideo(t)
        \/ UpdateSeek(t)
        \/ NextFrame(t)
        \/ CloseFile(t)
        \/ RemoveItem(t)

ConcSpec == ConcInit /\ [][ConcNext]_vars

(***************************************************************************)
(* What the properties below are stated with.                              *)
(***************************************************************************)
VideoIdxs == Range(Len(videos))

first_of(v) == At(videos, v)[1][2]
last_of(v) == At(videos, v)[1][1]
path_of(v) == At(videos, v)[2][1]
target_of(v) == At(videos, v)[2][2]

\* the exhaustive scans: the record whose range holds the flat index f, and
\* the first record whose last flat index is at least f
Holds(v, f) == first_of(v) <= f /\ f <= last_of(v)
Scan(f) == CHOOSE v \in VideoIdxs : Holds(v, f)
ScanLast(f) ==
    CHOOSE v \in VideoIdxs :
        /\ last_of(v) >= f
        /\ \A u \in VideoIdxs : u < v => last_of(u) < f

\* a read that keeps no state: frame f - first of the video that holds f
Stateless(f) ==
    [frame |-> [path |-> path_of(Scan(f)), n |-> f - first_of(Scan(f))],
     target |-> target_of(Scan(f))]

\* the items of one list, by reader
Listed(v) == {At(opened_videos, v)[i].h : i \in 1 .. Len(At(opened_videos, v))}
AllListed == UNION {Listed(v) : v \in VideoIdxs}
ReaderIds == Range(Len(readers))

\* a step that is a call of __getitem__
GetStep == ret'.op = "get" /\ dataset_vars' # dataset_vars

(***************************************************************************)
(* C1.  With decoders that yield the frames the index counted, every       *)
(* __getitem__(i) on a data set that has frames returns frame              *)
(* (i mod frames) - first of the video whose range holds i mod frames,     *)
(* with the class label of that video: what a read that keeps no state     *)
(* returns, whichever items are open and whatever was requested before.    *)
(***************************************************************************)
C1_GetIsStatelessRead ==
    (ret.op = "get" /\ frames > 0) =>
        /\ ret.err = "none"
        /\ ret.frame = Stateless(ret.frame_idx % frames).frame
        /\ ret.target = Stateless(ret.frame_idx % frames).target

\* a request served by a second item of the same video, opened because the
\* offset was out of order for the item already there
C1_Witness ==
    /\ ret.op = "get" /\ ret.err = "none" /\ ~ret.hit /\ ret.seek > 0
    /\ Len(At(opened_videos, ret.video_idx)) >= 2

(***************************************************************************)
(* C2.  As claimed: __getitem__ fails for no index and on no data set the  *)
(* index builder makes; the index is resolved to a value in [0, frames)    *)
(* that differs from it by a multiple of frames.                           *)
(***************************************************************************)
C2_Claimed ==
    ret.op = "get" =>
        /\ ret.err = "none"
        /\ ret.wrapped \in 0 .. (frames - 1)

(***************************************************************************)
(* C2, amended.  On a data set with at least one frame, __getitem__ fails  *)
(* for no index: the index is resolved to the value of [0, frames) that    *)
(* differs from it by a multiple of frames, and the frame and the label    *)
(* are those of that value, so that i and i + k * frames address the same  *)
(* frame.  (On a data set without frames every call raises.)               *)
(***************************************************************************)
C2_WrapsWhenFramesExist ==
    (ret.op = "get" /\ frames >= 1) =>
        /\ ret.err = "none"
        /\ ret.wrapped \in 0 .. (frames - 1)
        /\ (ret.frame_idx - ret.wrapped) % frames = 0
        /\ ret.frame = Stateless(ret.wrapped).frame
        /\ ret.target = Stateless(ret.wrapped).target

\* a negative index resolved into a video that is not the first
C2_Witness ==
    /\ ret.op = "get" /\ ret.err = "none"
    /\ ret.frame_idx < 0 /\ ret.video_idx > 0

(***************************************************************************)
(* C3.  For every flat index in [0, frames) the bisection over the keys    *)
(* (last, first) with the probe (flat index,) finds the video an           *)
(* exhaustive scan finds: the one whose range holds the index, which is    *)
(* the first whose last index is at least the index; the call uses that    *)
(* video and the offset from its first index.                              *)
(***************************************************************************)
C3_BisectIsScan ==
    /\ \A f \in 0 .. (frames - 1) :
          /\ bisect(videos, <<<<f>>>>) = Scan(f)
          /\ bisect(videos, <<<<f>>>>) = ScanLast(f)
    /\ (ret.op = "get" /\ frames > 0) =>
          /\ ret.video_idx = Scan(ret.wrapped)
          /\ ret.seek = ret.wrapped - first_of(Scan(ret.wrapped))

\* a call for the last flat index of the middle one of three videos
C3_Witness ==
    /\ Len(videos) >= 3
    /\ ret.op = "get" /\ ret.video_idx = 1
    /\ ret.wrapped = last_of(1)

(***************************************************************************)
(* C4.  A call of __getitem__ removes an item from a list exactly when it  *)
(* delivered the last frame of the video (the wrapped index is the last    *)
(* index of the video): the item removed is the one the frame was pulled   *)
(* from, and a call that delivers another frame removes none.  So an item  *)
(* is in its list exactly while it has been opened, has not delivered the  *)
(* last frame of its video, and free() has not closed it.                  *)
(***************************************************************************)
\* the readers whose items a step takes out of the lists, those it opens
\* included
Removed == (AllListed \cup (Range(Len(readers')) \ ReaderIds)) \ AllListed'

\* the reader has delivered the last frame of its video: every request is
\* delivered in Spec, and the latest one was for the last offset
DeliveredLast(h) ==
    /\ asked[h + 1] # <<>>
    /\ asked[h + 1][Len(asked[h + 1])] = nb_frames(readers[h + 1].video_idx) - 1

C4_EvictedOnLastFrameOnly ==
    /\ [][GetStep =>
            /\ Removed # {} <=>
                   /\ ret'.err = "none"
                   /\ ret'.wrapped = last_of(ret'.video_idx)
            /\ Removed \subseteq {ret'.h}
            /\ \A v \in VideoIdxs : v # ret'.video_idx => Listed(v)' = Listed(v)
         ]_vars
    /\ [](\A h \in ReaderIds :
            h \in AllListed <=> (~DeliveredLast(h) /\ readers[h + 1].closes = 0))

\* the last frame of a video of several frames, delivered by an item that
\* had served the frame before it and is gone from the list
C4_Witness ==
    /\ ret.op = "get" /\ ret.err = "none" /\ ret.hit /\ ret.last
    /\ ret.h \notin AllListed
    /\ AllListed # {}

(***************************************************************************)
(* C5.  As claimed: no list holds two items with the same seek pointer.    *)
(***************************************************************************)
C5_Claimed ==
    \A v \in VideoIdxs :
        \A i, j \in 1 .. Len(At(opened_videos, v)) :
            i # j => At(opened_videos, v)[i].seek # At(opened_videos, v)[j].seek

(***************************************************************************)
(* C5, amended.  A call opens a new item only when no item of the list     *)
(* has the requested offset as its seek pointer, and the new item is       *)
(* appended after the others; two items of a list may still come to have   *)
(* the same seek pointer, when one advances to where another stands, and   *)
(* then the first of them in the list serves the next request.             *)
(***************************************************************************)
C5_OpensOnlyOnMiss ==
    [][GetStep /\ ret'.video_idx >= 0 =>
          LET current == At(opened_videos, ret'.video_idx)
              matching == {i \in 1 .. Len(current) : current[i].seek = ret'.seek}
          IN /\ ret'.hit <=> matching # {}
             /\ ret'.hit =>
                   \E i \in matching :
                       /\ current[i].h = ret'.h
                       /\ \A j \in matching : i <= j
             /\ ~ret'.hit => ret'.h = Len(readers)
      ]_vars

\* a new item opened beside an open one of the same video that stands at
\* the seek pointer the new one comes to have
C5_Witness ==
    /\ ret.op = "get" /\ ~ret.hit /\ ret.err = "none"
    /\ \E i, j \in 1 .. Len(At(opened_videos, ret.video_idx)) :
          /\ i < j
          /\ At(opened_videos, ret.video_idx)[j].h = ret.h
          /\ At(opened_videos, ret.video_idx)[i].seek = ret.seek + 1

(***************************************************************************)
(* C6.  The offsets requested of one item, over its whole life, are a run  *)
(* that starts at the offset it was opened at and grows by exactly 1 per   *)
(* read: an item is chosen again only for the offset its seek pointer      *)
(* holds, never for one it has served or one it would have to skip to.     *)
(***************************************************************************)
IsRun(q) == \A k \in 1 .. Len(q) : q[k] = q[1] + (k - 1)

C6_ItemServesARun ==
    /\ \A h \in ReaderIds : IsRun(asked[h + 1])
    /\ \A v \in VideoIdxs :
          \A i \in 1 .. Len(At(opened_videos, v)) :
              LET item == At(opened_videos, v)[i]
                  q == asked[item.h + 1]
              IN q # <<>> /\ item.seek = q[Len(q)] + 1

\* an item that has served three offsets
C6_Witness ==
    \E h \in ReaderIds : Len(asked[h + 1]) >= 3 /\ ret.op = "get" /\ ret.h = h

(***************************************************************************)
(* C7.  After free() every list is empty and every reader opened so far    *)
(* is closed, whatever was open before; the next __getitem__, on any       *)
(* video, opens a new item at the requested offset and returns the frame   *)
(* and label of the index.                                                 *)
(***************************************************************************)
C7_FreeThenGet ==
    /\ [](ret.op = "free" =>
            /\ \A v \in VideoIdxs : At(opened_videos, v) = <<>>
            /\ \A h \in ReaderIds : readers[h + 1].closes >= 1)
    /\ [][(ret.op = "free" /\ GetStep /\ frames > 0) =>
            /\ ret'.err = "none"
            /\ ~ret'.hit
            /\ ret'.h = Len(readers)
            /\ readers'[ret'.h + 1].video_idx = ret'.video_idx
            /\ asked'[ret'.h + 1] = <<ret'.seek>>
            /\ ret'.frame = Stateless(ret'.wrapped).frame
            /\ ret'.target = Stateless(ret'.wrapped).target
         ]_vars

\* a new item opened on a video whose earlier item, stopped before the last
\* frame, was closed by free()
C7_Witness ==
    /\ ret.op = "get" /\ ret.err = "none" /\ ~ret.hit
    /\ \E h \in ReaderIds :
          /\ h # ret.h
          /\ readers[h + 1].video_idx = ret.video_idx
          /\ readers[h + 1].closes = 1
          /\ ~DeliveredLast(h)
    /\ Listed(ret.video_idx) \subseteq {ret.h}

(***************************************************************************)
(* C8.  For frames >= 1 and batch_size >= 1, with rows the least integer   *)
(* at least frames / batch_size, the sampler yields rows * batch_size      *)
(* indices, the length it reports, and the index at position k (from 0)    *)
(* is rows * (k mod batch_size) + (k div batch_size); every iteration      *)
(* yields the same indices in the same order.                              *)
(***************************************************************************)
Rows ==
    CHOOSE r \in 0 .. frames :
        r * batch_size >= frames /\ (r - 1) * batch_size < frames

C8_SamplerOrder ==
    (epoch >= 1 /\ frames >= 1) =>
        /\ num_samples = Rows * batch_size
        /\ Len(yielded) <= num_samples
        /\ ~has_next(sampler_it) <=> Len(yielded) = num_samples
        /\ \A k \in Range(Len(yielded)) :
              At(yielded, k) = Rows * (k % batch_size) + (k \div batch_size)
        /\ epoch >= 2 =>
              /\ Len(earlier) = num_samples
              /\ \A k \in Range(Len(yielded)) : At(yielded, k) = At(earlier, k)

\* the second iteration is over for 12 frames in 5 streams: 3 rows, 15
\* indices, and row 0 is 0, 3, 6, 9, 12
C8_Witness ==
    /\ epoch = 2 /\ ~has_next(sampler_it)
    /\ frames = 12 /\ batch_size = 5
    /\ samples_per_row = 3 /\ Len(yielded) = 15
    /\ SubSeq(yielded, 1, 5) = <<0, 3, 6, 9, 12>>

(***************************************************************************)
(* C9.  A batch of the loader is T * batch_size samples in the order of    *)
(* the sampler, from the start of a row.  Its collation is a tuple of the  *)
(* arity of a sample, (frames, labels), and entry (t, s) of each component *)
(* is that component of sample t * batch_size + s of the batch, which is   *)
(* the sample of stream s at tick t of the batch: no element is moved to   *)
(* another tick or stream.                                                 *)
(***************************************************************************)
C9_CollateIsTimeMajor ==
    collated.samples # <<>> =>
        LET samples == collated.samples
            ticks == Len(samples) \div batch_size
            out == collated.out
        IN /\ Len(samples) = ticks * batch_size
           /\ out.kind = "tuple" /\ Len(out.v) = 2
           /\ \A c \in 1 .. 2 :
                 /\ out.v[c].kind = "tensor"
                 /\ Len(out.v[c].v) = ticks
                 /\ \A t \in Range(ticks) :
                       /\ Len(At(out.v[c].v, t)) = batch_size
                       /\ \A s \in Range(batch_size) :
                             /\ At(At(out.v[c].v, t), s) =
                                    At(At(samples, t * batch_size + s).v, c - 1).v
                             /\ At(samples, t * batch_size + s) =
                                    LET f == (samples_per_row * s + collated.row + t)
                                                 % frames
                                    IN TupleValue(<<TensorValue(Stateless(f).frame),
                                                    IntValue(Stateless(f).target)>>)

\* a batch of two ticks of several streams that holds two labels
C9_Witness ==
    /\ collated.samples # <<>>
    /\ batch_size >= 2
    /\ Len(collated.samples) = 2 * batch_size
    /\ \E t \in 1 .. 2 : \E s \in 1 .. batch_size :
          collated.out.v[2].v[t][s] # collated.out.v[2].v[1][1]

(***************************************************************************)
(* C10.  As claimed: the seek pointer of an item advances only when a      *)
(* frame is delivered.  A call whose decoder runs out before the requested *)
(* frame raises and leaves the item it used (found or newly opened) at the *)
(* requested offset, so the seek pointer of every item is the number of    *)
(* frames its islice has taken from the decoder, once the item has been    *)
(* read.  Checked under ShortSpec, where decoders can run out.             *)
(***************************************************************************)
C10_Claimed ==
    /\ (ret.op = "get" /\ ret.err = "StopIteration") =>
          \E i \in 1 .. Len(At(opened_videos, ret.video_idx)) :
              /\ At(opened_videos, ret.video_idx)[i].h = ret.h
              /\ At(opened_videos, ret.video_idx)[i].seek = ret.seek
    /\ \A v \in VideoIdxs :
          \A i \in 1 .. Len(At(opened_videos, v)) :
              At(opened_videos, v)[i].seek = At(opened_videos, v)[i].consumed

(***************************************************************************)
(* C11.  Whatever class directories and frame counts the walk meets, the   *)
(* items it has made are contiguous: the first starts at flat index 0,     *)
(* each next one starts right after the last flat index of the one before, *)
(* and the last one ends at frames - 1.  So every flat index below frames  *)
(* lies in the range of exactly one item, the items are stored in          *)
(* ascending order of their last flat index, and frames is the sum of the  *)
(* frame counts probed.  The result __init__ keeps is that of the walk.    *)
(***************************************************************************)
C11_RangesTileFlatIndices ==
    LET n == Len(videos)
        counts == Counts(root)
    IN /\ Len(counts) = n
       /\ frames = Sum(counts)
       /\ \A v \in VideoIdxs :
             /\ first_of(v) = (IF v = 0 THEN 0 ELSE last_of(v - 1) + 1)
             /\ last_of(v) = first_of(v) + counts[v + 1] - 1
       /\ n > 0 => last_of(n - 1) = frames - 1
       /\ \A f \in Range(frames) :
             Cardinality({v \in VideoIdxs : Holds(v, f)}) = 1
       /\ \A u, v \in VideoIdxs :
             u < v => /\ last_of(u) <= last_of(v)
                      /\ counts[v + 1] > 0 => last_of(u) < last_of(v)
       /\ walk.done => [videos |-> videos, frames |-> frames] = _make_data_set(root)

\* the walk over a video of 5 frames in one class and of 3 and 4 in the other
C11_Witness ==
    /\ walk.done
    /\ root = <<<<5>>, <<3, 4>>>>
    /\ frames = 12
    /\ [v \in 1 .. Len(videos) |-> videos[v][1]] = <<<<4, 0>>, <<7, 5>>, <<11, 8>>>>

(***************************************************************************)
(* C12.  Whatever calls of __getitem__ and free are made, those that raise *)
(* included, every FFmpegReader opened is closed at most once, and after   *)
(* every call a reader is open exactly when its item is in a list of       *)
(* opened_videos, where it stands once.  A reader is closed only by the    *)
(* call that delivers the last frame of its video from it, or by free.     *)
(* Checked under ShortSpec, where decoders can run out.                    *)
(***************************************************************************)
\* the positions of the lists that hold the item of reader h
Places(h) ==
    {<<v, i>> \in VideoIdxs \X (1 .. Len(readers)) :
         i <= Len(At(opened_videos, v)) /\ At(opened_videos, v)[i].h = h}

C12_OpenIffListed ==
    /\ [](\A h \in ReaderIds :
            /\ readers[h + 1].closes <= 1
            /\ readers[h + 1].closes = 0 <=> h \in AllListed
            /\ Cardinality(Places(h)) <= 1)
    /\ [][\A h \in ReaderIds :
            readers'[h + 1].closes # readers[h + 1].closes =>
                \/ ret'.op = "free"
                \/ /\ ret'.op = "get" /\ ret'.err = "none"
                   /\ ret'.h = h /\ ret'.last
         ]_vars

\* a call for the last frame of a video has raised and its item is still
\* listed, with its reader open, while another reader has been closed
C12_Witness ==
    /\ ret.op = "get" /\ ret.err = "StopIteration" /\ ret.last
    /\ ret.h \in AllListed
    /\ readers[ret.h + 1].closes = 0
    /\ \E h \in ReaderIds : readers[h + 1].closes = 1

(***************************************************************************)
(* C14.  As claimed: after every call, the seek pointer of every item of   *)
(* opened_videos[v] is above 0 and below the number of frames of video v.  *)
(* Checked under ShortSpec, where decoders can run out.                    *)
(***************************************************************************)
C14_Claimed ==
    \A v \in VideoIdxs :
        \A i \in 1 .. Len(At(opened_videos, v)) :
            /\ 0 < At(opened_videos, v)[i].seek
            /\ At(opened_videos, v)[i].seek < nb_frames(v)

(***************************************************************************)
(* C13.  As claimed: in the first iteration of a loader over a new data    *)
(* set, a call of __getitem__ opens an FFmpegReader only in the first row  *)
(* of the sampler (j = 0) or for offset 0 of a video.  Every other call    *)
(* (j > 0 and offset > 0) is served by an item already in the list of its  *)
(* video whose seek pointer is the requested offset, and opens nothing.    *)
(***************************************************************************)
\* the call of a Fetch step was served by an item that was in the list
Served ==
    LET current == At(opened_videos, ret'.video_idx)
    IN /\ Len(readers') = Len(readers)
       /\ \E k \in 1 .. Len(current) :
             current[k].seek = ret'.seek /\ current[k].h = ret'.h

\* a Fetch step of the first iteration
FirstEpochFetch == epoch = 1 /\ Len(yielded') > Len(yielded)

C13_Claimed ==
    [][FirstEpochFetch =>
          /\ ~Served => (sampler_it.j = 0 \/ ret'.seek = 0)
          /\ (sampler_it.j > 0 /\ ret'.seek > 0) => Served
      ]_vars

(***************************************************************************)
(* C13, amended.  In the first iteration of a loader over a new data set,  *)
(* every call returns its frame, and a call opens an FFmpegReader only in  *)
(* the first row of the sampler, for offset 0 of a video, or when the      *)
(* frame it asks for has been asked for by another stream since its own    *)
(* stream read the frame before: that call was served by the item the      *)
(* stream had left at this offset.  This takes two streams on the same     *)
(* frames, so at least two indices at or above frames: when at most one    *)
(* index is, every call with j > 0 and offset > 0 is served by an item of  *)
(* the list whose seek pointer is the requested offset.                    *)
(***************************************************************************)
\* the frame index now asked for was yielded to another stream after the
\* index this stream was yielded in the row before
TakenSince ==
    \E q \in (Len(yielded) + 2 - batch_size) .. Len(yielded) :
        /\ q >= 1
        /\ PyMod(yielded[q], frames) = ret'.wrapped

C13_ReusesUnlessTaken ==
    [][FirstEpochFetch =>
          /\ ret'.err = "none"
          /\ ret'.wrapped = PyMod(yielded'[Len(yielded')], frames)
          /\ ret'.frame = Stateless(ret'.wrapped).frame
          /\ ret'.seek = ret'.wrapped - first_of(ret'.video_idx)
          /\ ~Served => (sampler_it.j = 0 \/ ret'.seek = 0 \/ TakenSince)
          /\ (~Served /\ sampler_it.j > 0 /\ ret'.seek > 0) =>
                num_samples - frames >= 2
          /\ ret'.hit <=> Served
      ]_vars

\* in a row after the first, a call for an offset above 0 has opened a
\* reader: the item its stream had left was taken by a stream that had
\* wrapped around
C13_Witness ==
    /\ epoch = 1 /\ ret.op = "get" /\ ret.err = "none"
    /\ ~ret.hit /\ ret.seek > 0
    /\ Len(yielded) > batch_size
    /\ yielded[Len(yielded)] < frames
    /\ \E q \in 1 .. Len(yielded) - 1 : yielded[q] = yielded[Len(yielded)] + frames

(***************************************************************************)
(* C17.  In the first iteration of a loader over a new data set, the       *)
(* lists of opened_videos never hold more than batch_size items in all.    *)
(***************************************************************************)
Opened == Sum([v \in 1 .. Len(opened_videos) |-> Len(opened_videos[v])])

C17_AtMostBatchSizeItems == epoch = 1 => Opened <= batch_size

\* one item per stream, three of them in the same video and two of these
\* with the same seek pointer
C17_Witness ==
    /\ epoch = 1 /\ batch_size >= 3 /\ Opened = batch_size
    /\ \E v \in VideoIdxs :
          /\ Len(At(opened_videos, v)) = 3
          /\ \E i, k \in 1 .. 3 :
                i # k /\ At(opened_videos, v)[i].seek = At(opened_videos, v)[k].seek

(***************************************************************************)
(* C16.  As claimed: every index the sampler yields that is at or above    *)
(* frames is yielded in the last row, and at the tail of it.               *)
(***************************************************************************)
\* the row and the stream of the index at position k of yielded (from 0)
RowOf(k) == k \div batch_size
StreamOf(k) == k % batch_size
Wraps(k) == At(yielded, k) >= frames

C16_Claimed ==
    \A k \in Range(Len(yielded)) :
        Wraps(k) =>
            /\ RowOf(k) = Rows - 1
            /\ \A l \in Range(Len(yielded)) :
                  (RowOf(l) = RowOf(k) /\ l > k) => Wraps(l)

(***************************************************************************)
(* C16, amended.  The indices at or above frames are the tail of the last  *)
(* streams, not of the last row: an index in stream s is at or above       *)
(* frames only if the run of stream s ends above frames - 1, and then so   *)
(* are the indices of stream s in all later rows and the indices of all    *)
(* later streams in all rows.  So such indices stand at the tail of their  *)
(* row in every row they occur in, the first row included, and at the end  *)
(* of an iteration there are num_samples - frames of them.                 *)
(***************************************************************************)
C16_WrapsAtTailOfStreams ==
    (epoch >= 1 /\ frames >= 1) =>
        /\ \A k \in Range(Len(yielded)) :
              Wraps(k) =>
                  /\ Rows * (StreamOf(k) + 1) > frames
                  /\ \A l \in Range(Len(yielded)) :
                        /\ (RowOf(l) = RowOf(k) /\ l > k) => Wraps(l)
                        /\ (StreamOf(l) = StreamOf(k) /\ l > k) => Wraps(l)
                        /\ StreamOf(l) > StreamOf(k) => Wraps(l)
        /\ ~has_next(sampler_it) =>
              Cardinality({k \in Range(Len(yielded)) : Wraps(k)})
                  = num_samples - frames

\* 12 frames in 5 streams: the first row ends with index 12
C16_Witness ==
    /\ epoch >= 1 /\ frames = 12 /\ batch_size = 5
    /\ Len(yielded) >= 5
    /\ Wraps(4) /\ RowOf(4) = 0 /\ Rows = 3

(***************************************************************************)
(* C19.  At the end of an iteration the sampler has yielded every value of *)
(* 0 .. rows * batch_size - 1 once.  The indices of stream s (positions s, *)
(* s + batch_size, ...) are the run rows * s .. rows * s + rows - 1.       *)
(* Modulo frames, the indices yielded are all the frame indices            *)
(* 0 .. frames - 1, and rows * batch_size - frames of the requests are for *)
(* a frame that an index before them in the order of the runs has asked.   *)
(***************************************************************************)
StreamIndices(s) == [t \in 1 .. Rows |-> At(yielded, s + (t - 1) * batch_size)]

C19_PermutationOfRuns ==
    (epoch >= 1 /\ ~has_next(sampler_it)) =>
        /\ Len(yielded) = Rows * batch_size
        /\ {At(yielded, k) : k \in Range(Len(yielded))} = Range(Rows * batch_size)
        /\ \A s \in Range(batch_size) :
              /\ IsRun(StreamIndices(s))
              /\ Rows >= 1 => StreamIndices(s)[1] = Rows * s
        /\ frames >= 1 =>
              /\ {PyMod(At(yielded, k), frames) : k \in Range(Len(yielded))}
                     = Range(frames)
              /\ Cardinality({k \in Range(Len(yielded)) :
                                 \E l \in Range(Len(yielded)) :
                                     /\ At(yielded, l) < At(yielded, k)
                                     /\ PyMod(At(yielded, l), frames)
                                            = PyMod(At(yielded, k), frames)})
                     = Rows * batch_size - frames

\* the iteration is over for 12 frames in 5 streams: 15 requests, 3 of
\* them repeats
C19_Witness ==
    /\ epoch >= 1 /\ ~has_next(sampler_it)
    /\ frames = 12 /\ batch_size = 5
    /\ Len(yielded) = 15
    /\ StreamIndices(4) = <<12, 13, 14>>

(***************************************************************************)
(* C18.  A call of __getitem__ leaves videos and frames as they are, and   *)
(* changes no list of opened_videos but that of the video it reads; a call *)
(* that raises before it reads changes none.  In that list it changes at   *)
(* most one item: it appends one item that stands one above the requested  *)
(* offset, or advances the seek pointer of one item by one, or removes one *)
(* item, and every other item keeps its seek pointer and its place among   *)
(* the others.  A call of free leaves videos and frames as they are.       *)
(***************************************************************************)
\* list new is list old with one item appended, advanced or removed
OneItemChanged(old, new, seek) ==
    \/ /\ Len(new) = Len(old) + 1
       /\ SubSeq(new, 1, Len(old)) = old
       /\ new[Len(new)].seek = seek + 1
    \/ /\ Len(new) = Len(old)
       /\ Cardinality({i \in 1 .. Len(old) : new[i] # old[i]}) <= 1
       /\ \A i \in 1 .. Len(old) :
             new[i] # old[i] =>
                 /\ new[i].h = old[i].h
                 /\ old[i].seek = seek
                 /\ new[i].seek = seek + 1
    \/ /\ Len(new) = Len(old) - 1
       /\ \E i \in 1 .. Len(old) :
             /\ old[i].seek = seek
             /\ new = SubSeq(old, 1, i - 1) \o SubSeq(old, i + 1, Len(old))

C18_GetChangesOneList ==
    [][/\ GetStep =>
            /\ videos' = videos
            /\ frames' = frames
            /\ \A v \in VideoIdxs :
                  IF v = ret'.video_idx
                  THEN OneItemChanged(At(opened_videos, v), At(opened_videos', v),
                                      ret'.seek)
                  ELSE At(opened_videos', v) = At(opened_videos, v)
       /\ ret'.op = "free" => (videos' = videos /\ frames' = frames)
      ]_vars

\* the last frame of a video has been delivered by the first of two items
\* of its list: it is gone, and the other item is left where it stood
C18_Witness ==
    /\ ret.op = "get" /\ ret.err = "none" /\ ret.hit /\ ret.last
    /\ ret.h = 0
    /\ Len(At(opened_videos, ret.video_idx)) = 1
    /\ At(opened_videos, ret.video_idx)[1].h = 1
    /\ At(opened_videos, ret.video_idx)[1].seek < ret.seek

(***************************************************************************)
(* C15.  Two callers of __getitem__ without a lock.  As long as no call    *)
(* has started while another was under way, every call on a data set with  *)
(* frames has returned the frame and the label a read that keeps no state  *)
(* returns, and none has raised.  A call raises or returns another frame   *)
(* only after calls have overlapped; so do the three events of a race: a   *)
(* reader opened for a request for which the other caller has opened one   *)
(* and not yet read it, a reader closed while the other caller holds its   *)
(* item, and a frame pulled from a closed reader.                          *)
(***************************************************************************)
\* the finished call c returned what a read that keeps no state returns
AsRequested(c) ==
    /\ c.err = "none"
    /\ c.frame = Stateless(c.wrapped).frame
    /\ c.target = Stateless(c.wrapped).target
    /\ c.wrapped = PyMod(c.frame_idx, frames)

Finished(t) == calls[t].pc = "idle" /\ calls[t].c.op = "get"

C15_SerializedCallsAreRight ==
    /\ "overlap" \notin raced => raced = {}
    /\ \A t \in Callers :
          (Finished(t) /\ frames > 0 /\ ~AsRequested(calls[t].c)) =>
              "overlap" \in raced

\* all three events have happened, and a call has raised or returned a
\* frame that is not the one requested
C15_Witness ==
    /\ raced = {"overlap", "opened twice", "closed a selected item",
                "pulled from closed"}
    /\ \E t \in Callers : Finished(t) /\ ~AsRequested(calls[t].c)
    /\ \E t \in Callers : Finished(t) /\ calls[t].c.err = "none"
                              /\ ~AsRequested(calls[t].c)

====
